---- MODULE Spec2Model ----
(***************************************************************************)
(* A model of app.py: the PDF text extractor, the unique-name generator    *)
(* and the five HTTP handlers (/upload, /text, /summarize, /tts,           *)
(* /audio/<filename>) over the two storage folders.                        *)
(*                                                                         *)
(* Spec         the server: concurrent request workers over the folders.   *)
(* SpecExtract  extract_text_from_pdf applied to every bounded input.      *)
(***************************************************************************)
EXTENDS Integers, Sequences, FiniteSets, TLC

VARIABLES
    GOOGLE_API_KEY, \* the credential read at start-up (line 25)
    uploads,        \* UPLOAD_FOLDER: file name -> file
    audio,          \* AUDIO_FOLDER: file name -> file
    nextUuid,       \* how many uuid4() values have been drawn
    pc,             \* worker -> position inside the handler it runs
    loc,            \* worker -> the handler's local variables
    last,           \* the answer a handler has just returned, until it is sent
    known,          \* the names and URLs returned to clients, the warnings logged
    exDoc, exS, exE, \* SpecExtract: the arguments of extract_text_from_pdf
    exPc, exRes      \* SpecExtract: "ready"/"done" and the call's outcome

vars == <<GOOGLE_API_KEY, uploads, audio, nextUuid, pc, loc, last, known,
          exDoc, exS, exE, exPc, exRes>>

srvVars == <<GOOGLE_API_KEY, uploads, audio, nextUuid, pc, loc, last, known>>
exVars == <<exDoc, exS, exE, exPc, exRes>>

----------------------------------------------------------------------------
(* Bounds *)

\* pages of the longest document
MaxPages == 3
\* page arguments range over -PageSpan .. MaxPages + PageSpan
PageSpan == 2

----------------------------------------------------------------------------
(* PDF documents.  A file is either not a PDF (PdfReader raises) or a      *)
(* sequence of pages; page.extract_text() returns a string, returns None,  *)
(* or raises.  A string is a sequence of characters.                       *)

TextPage(t) == [kind |-> "text", t |-> t]
NonePage == [kind |-> "none", t |-> <<>>]
RaisingPage == [kind |-> "raise", t |-> <<>>]

PageKinds == {TextPage(<<"a">>), TextPage(<<"b">>), TextPage(<<>>), NonePage, RaisingPage}

Returned(v) == [kind |-> "return", v |-> v]
Raised(e) == [kind |-> "raise", v |-> e]

Max(a, b) == IF a >= b THEN a ELSE b
Min(a, b) == IF a <= b THEN a ELSE b

\* reader.pages[i] with Python's indexing: 0-based, a negative index counts
\* from the end, anything else outside the list is an IndexError.
PagesAt(pages, i) ==
    LET n == Len(pages)
        j == IF i < 0 THEN i + n ELSE i
    IN  IF j >= 0 /\ j < n THEN Returned(pages[j + 1]) ELSE Raised("IndexError")

ExtractTextNoDefault(page) ==
    IF page.kind = "raise" THEN Raised("PageError")
    ELSE IF page.kind = "none" THEN Raised("TypeError")
    ELSE Returned(page.t)
\* page.extract_text() or ""
ExtractTextOrEmpty(page) ==
    IF page.kind = "raise" THEN Raised("PageError")
    ELSE IF page.kind = "none" THEN Returned(<<>>)
    ELSE Returned(page.t)

\* the for loop of lines 47-50 from page_num up to end_page - 1, text so far
RECURSIVE ExtractLoop(_, _, _, _)
ExtractLoop(pages, page_num, end_page, text) ==
    IF page_num >= end_page THEN Returned(text)
    ELSE IF page_num < Len(pages)
         THEN LET page == PagesAt(pages, page_num)
              IN  IF page.kind = "raise" THEN page
                  ELSE LET t == ExtractTextOrEmpty(page.v)
                       IN  IF t.kind = "raise" THEN t
                           ELSE ExtractLoop(pages, page_num + 1, end_page, text \o t.v)
         ELSE ExtractLoop(pages, page_num + 1, end_page, text)

ClampStartNoFloor(start_page) == start_page
\* start_page = max(1, start_page)
ClampStart(start_page) == Max(1, start_page)

\* end_page = min(num_pages_actual, end_page)
ClampEnd(num_pages_actual, end_page) == Min(num_pages_actual, end_page)

LoopFromStartPage(pages, start_page, end_page) ==
    ExtractLoop(pages, start_page, end_page, <<>>)
\* text = ""; for page_num in range(start_page - 1, end_page): ...; return text
LoopOverRange(pages, start_page, end_page) ==
    ExtractLoop(pages, start_page - 1, end_page, <<>>)

\* What a path names: a PDF with its pages, a file that is not a PDF, or nothing
NotPdf == [there |-> TRUE, pdf |-> FALSE, pages |-> <<>>]
Pdf(pages) == [there |-> TRUE, pdf |-> TRUE, pages |-> pages]
NoSuchFile == [there |-> FALSE, pdf |-> FALSE, pages |-> <<>>]

\* PdfReader(pdf_path): opening a path that names nothing and parsing a file
\* that is not a PDF both raise
PdfReader(file) ==
    IF ~file.there THEN Raised("FileNotFoundError")
    ELSE IF file.pdf THEN Returned(file.pages)
    ELSE Raised("PdfReadError")

\* extract_text_from_pdf(pdf_path, start_page, end_page) on the file at
\* pdf_path; the except clause re-raises whatever was raised.
extract_text_from_pdf(file, start_page, end_page) ==
    LET reader == PdfReader(file)
    IN  IF reader.kind = "raise" THEN reader
        ELSE LET num_pages_actual == Len(reader.v)
                 s == ClampStart(start_page)
                 e == ClampEnd(num_pages_actual, end_page)
             IN  IF s > e THEN Returned(<<>>)
                 ELSE LoopOverRange(reader.v, s, e)

----------------------------------------------------------------------------
(* Files, names and the client's inputs *)

\* uuid4() values that may be drawn in one run
MaxUuid == 2
\* requests that may be in progress at once
NumWorkers == 2

Workers == 1 .. NumWorkers

\* A file name is a stem and an extension: os.path.splitext(name) = (stem, ext)
FileName(stem, ext) == [stem |-> stem, ext |-> ext]
Splitext(filename) == <<filename.stem, filename.ext>>
EmptyName == FileName("", "")

\* str.lower() on the extensions that occur
Lower(ext) == IF ext = ".PDF" THEN ".pdf" ELSE ext

\* str(uuid.uuid4()) when n values were drawn before.  A version-4 UUID is
\* 122 random bits; the model takes the call at its contract, a value that no
\* earlier call returned, and leaves the chance of a repeat aside.
Uuid4(n) == "u" \o ToString(n + 1)

GenerateNameFromOriginal(original_filename, n) == original_filename
\* generate_unique_filename(original_filename), n uuids drawn before the call
generate_unique_filename(original_filename, n) ==
    FileName(Uuid4(n), Splitext(original_filename)[2])

\* audio_filename = f"{uuid.uuid4()}.mp3"
NewAudioFilename(n) == FileName(Uuid4(n), ".mp3")

\* A stored file carries the number of times its path was written.
\* open(path, "wb"): creates the file, or replaces the one that is there
WriteFile(folder, name, content) ==
    LET gen == IF name \in DOMAIN folder THEN folder[name].gen + 1 ELSE 1
        file == [c \in DOMAIN content \cup {"gen"} |->
                    IF c = "gen" THEN gen ELSE content[c]]
    IN  [n \in DOMAIN folder \cup {name} |-> IF n = name THEN file ELSE folder[n]]

NoFiles == [n \in {} |-> NotPdf]

\* Documents a client uploads
TwoPages == Pdf(<<TextPage(<<"a">>), TextPage(<<"b">>)>>)
BadPage == Pdf(<<TextPage(<<"a">>), RaisingPage>>)

\* request.files of an /upload request
UploadRequest(hasFile, filename, content) ==
    [hasFile |-> hasFile, filename |-> filename, content |-> content]
UploadRequests ==
    {UploadRequest(FALSE, EmptyName, NotPdf),
     UploadRequest(TRUE, EmptyName, NotPdf),
     UploadRequest(TRUE, FileName("c", ".txt"), TwoPages),
     UploadRequest(TRUE, FileName("a", ".pdf"), NotPdf),
     UploadRequest(TRUE, FileName("b", ".PDF"), BadPage)}

\* JSON values of start_page / end_page.  A float is held in tenths.
Absent == [k |-> "absent", n |-> 0]
Null == [k |-> "null", n |-> 0]
IntVal(n) == [k |-> "int", n |-> n]
FloatTenths(n) == [k |-> "float", n |-> n]
NumStr(n) == [k |-> "numstr", n |-> n]
WordStr == [k |-> "str", n |-> 0]
ListVal == [k |-> "list", n |-> 0]

\* dict.get(key, default)
GetOr(value, default) == IF value.k = "absent" THEN default ELSE value

\* Python's int(x): an int is itself, a float is truncated towards zero, a
\* string of digits is parsed, any other string is a ValueError, and None or
\* a list is a TypeError.
PyInt(x) ==
    CASE x.k = "int" -> Returned(x.n)
      [] x.k = "float" -> Returned(IF x.n >= 0 THEN x.n \div 10 ELSE -((-x.n) \div 10))
      [] x.k = "numstr" -> Returned(x.n)
      [] x.k = "str" -> Raised("ValueError")
      [] OTHER -> Raised("TypeError")

\* server_filename / text values: absent, or a string
NoString == [k |-> "absent", s |-> EmptyName]
Str(s) == [k |-> "str", s |-> s]
\* Python truthiness of a value read with dict.get: None and "" are falsy
Falsy(v) == v.k = "absent" \/ v.s = EmptyName

\* The name ".": os.path.join(UPLOAD_FOLDER, ".") is the folder itself, which
\* line 21 creates, so the path exists and is not a PDF
FolderItself == FileName(".", "")
GhostName == FileName("ghost", ".pdf")

\* os.path.exists(os.path.join(UPLOAD_FOLDER, server_filename))
UploadPathExists(folder, name) == name \in DOMAIN folder \/ name = FolderItself
\* the file os.path.join(UPLOAD_FOLDER, server_filename) names
UploadPathFile(folder, name) ==
    IF name \in DOMAIN folder THEN folder[name]
    ELSE IF name = FolderItself THEN NotPdf
    ELSE NoSuchFile

\* Request bodies.  request.json raises for a body that is not JSON, and
\* data.get raises for JSON that is not an object.
NotJson == [k |-> "notjson"]
NonObject == [k |-> "nonobject"]
TextBody(f, s, e) ==
    [k |-> "object", server_filename |-> f, start_page |-> s, end_page |-> e]
StringBody(t) == [k |-> "object", text |-> t]

\* start_page and end_page as a client may send them
PagePairs ==
    {<<IntVal(1), IntVal(2)>>, <<Absent, Absent>>, <<NumStr(2), IntVal(3)>>,
     <<IntVal(1), WordStr>>, <<FloatTenths(15), IntVal(2)>>,
     <<WordStr, Null>>, <<ListVal, WordStr>>}
\* The bodies of a /text request: any name that is on disk, one that is not,
\* the folder itself, the empty string, or no name at all
TextBodies(folder) ==
    {NotJson, NonObject} \cup
    {TextBody(f, p[1], p[2]) :
        f \in {NoString, Str(EmptyName)} \cup
              {Str(n) : n \in DOMAIN folder \cup {GhostName, FolderItself}},
        p \in PagePairs}
StringBodies == {NotJson, NonObject, StringBody(NoString), StringBody(Str(EmptyName)),
                 StringBody(Str(FileName("hi", "")))}

----------------------------------------------------------------------------
(* Responses *)

NoBody == [none |-> TRUE]
\* return jsonify({'error': msg}), status
JsonError(status, msg) == [kind |-> "json", status |-> status, error |-> msg, body |-> NoBody]
\* return jsonify(body)
JsonOk(body) == [kind |-> "json", status |-> 200, error |-> "", body |-> body]
\* the file response of send_from_directory
FileResponse(file) == [kind |-> "file", status |-> 200, error |-> "", body |-> file]
\* an exception no except clause of the handler matches leaves the handler
Escaped(exc) == [kind |-> "escaped", status |-> 0, error |-> exc, body |-> NoBody]

----------------------------------------------------------------------------
(* The handlers that run in one step: /text, /summarize, /audio/<filename> *)

\* the except clauses of get_text, lines 112-118
TextExcept(exc) ==
    CASE exc = "FileNotFoundError" -> JsonError(404, "PDF file not found on server")
      [] exc = "ValueError" -> JsonError(400, "Invalid page numbers provided")
      [] OTHER -> JsonError(500, "Failed to extract text")

GetTextNotFoundAs400(body, folder) ==
    IF body.k # "object" THEN TextExcept("AttributeError")
    ELSE LET start_page == PyInt(GetOr(body.start_page, IntVal(1)))
             end_page == PyInt(GetOr(body.end_page, IntVal(1)))
         IN  IF start_page.kind = "raise" THEN TextExcept(start_page.v)
             ELSE IF end_page.kind = "raise" THEN TextExcept(end_page.v)
             ELSE IF Falsy(body.server_filename)
                  THEN JsonError(400, "Missing server_filename")
             ELSE IF ~UploadPathExists(folder, body.server_filename.s)
                  THEN JsonError(400, "PDF file not found on server")
             ELSE LET text == extract_text_from_pdf(
                                UploadPathFile(folder, body.server_filename.s),
                                start_page.v, end_page.v)
                  IN  IF text.kind = "raise" THEN TextExcept(text.v)
                      ELSE JsonOk([text |-> text.v])
\* get_text() for the request body, over the upload folder
get_text(body, folder) ==
    IF body.k # "object" THEN TextExcept("AttributeError")
    ELSE LET start_page == PyInt(GetOr(body.start_page, IntVal(1)))
             end_page == PyInt(GetOr(body.end_page, IntVal(1)))
         IN  IF start_page.kind = "raise" THEN TextExcept(start_page.v)
             ELSE IF end_page.kind = "raise" THEN TextExcept(end_page.v)
             ELSE IF Falsy(body.server_filename)
                  THEN JsonError(400, "Missing server_filename")
             ELSE IF ~UploadPathExists(folder, body.server_filename.s)
                  THEN JsonError(404, "PDF file not found on server")
             ELSE LET text == extract_text_from_pdf(
                                UploadPathFile(folder, body.server_filename.s),
                                start_page.v, end_page.v)
                  IN  IF text.kind = "raise" THEN TextExcept(text.v)
                      ELSE JsonOk([text |-> text.v])

\* str.strip() on a sequence of characters
RECURSIVE LStrip(_)
LStrip(t) == IF t # <<>> /\ Head(t) = " " THEN LStrip(Tail(t)) ELSE t
RECURSIVE RStrip(_)
RStrip(t) == IF t # <<>> /\ t[Len(t)] = " " THEN RStrip(SubSeq(t, 1, Len(t) - 1)) ELSE t
Strip(t) == RStrip(LStrip(t))

\* what ai_model.generate_content(prompt) does: returns a response or raises
ModelOutcomes == {Returned(<<" ", "*", "x", " ">>), Raised("UpstreamError")}

Effects(prompted, called) == [prompted |-> prompted, called |-> called]

SummarizeBodyFirst(key, body, gen) ==
    IF body.k # "object"
    THEN [resp |-> JsonError(500, "Failed to generate summary: AttributeError"),
          fx |-> Effects(FALSE, FALSE)]
    ELSE IF Falsy(body.text)
    THEN [resp |-> JsonError(400, "No text provided for summarization"),
          fx |-> Effects(FALSE, FALSE)]
    ELSE IF Falsy(key)
    THEN [resp |-> JsonError(500, "AI Service not configured on server"),
          fx |-> Effects(FALSE, FALSE)]
    ELSE IF gen.kind = "raise"
    THEN [resp |-> JsonError(500, "Failed to generate summary: " \o gen.v),
          fx |-> Effects(TRUE, TRUE)]
    ELSE [resp |-> JsonOk([summary |-> Strip(gen.v)]), fx |-> Effects(TRUE, TRUE)]
\* summarize_text() for the request body; gen is what the remote model does
\* if it is called.  The answer, and whether the prompt was built and the
\* model called.
summarize_text(key, body, gen) ==
    IF Falsy(key)
    THEN [resp |-> JsonError(500, "AI Service not configured on server"),
          fx |-> Effects(FALSE, FALSE)]
    ELSE IF body.k # "object"
    THEN [resp |-> JsonError(500, "Failed to generate summary: AttributeError"),
          fx |-> Effects(FALSE, FALSE)]
    ELSE IF Falsy(body.text)
    THEN [resp |-> JsonError(400, "No text provided for summarization"),
          fx |-> Effects(FALSE, FALSE)]
    ELSE IF gen.kind = "raise"
    THEN [resp |-> JsonError(500, "Failed to generate summary: " \o gen.v),
          fx |-> Effects(TRUE, TRUE)]
    ELSE [resp |-> JsonOk([summary |-> Strip(gen.v)]), fx |-> Effects(TRUE, TRUE)]

\* audio_url = f"/audio/{audio_filename}", and the route '/audio/<path:filename>'
AudioUrl(audio_filename) == [prefix |-> "/audio/", filename |-> audio_filename]
RouteAudio(url) == url.filename

\* what send_from_directory raises for a file that is not there
MissingFileErrors == {"NotFound", "FileNotFoundError"}

\* serve_audio(filename); exc is what send_from_directory raises if the file
\* is missing.  Only FileNotFoundError is caught.
serve_audio(filename, folder, exc) ==
    IF filename \in DOMAIN folder THEN FileResponse(folder[filename])
    ELSE IF exc = "FileNotFoundError" THEN JsonError(404, "Audio file not found")
    ELSE Escaped(exc)

----------------------------------------------------------------------------
(* The server: state, and one action per handler step *)

\* What has left the server: the server_filename values and audio_url values of
\* its answers, and the audio files its log warns about
NothingKnown == [files |-> {}, urls |-> {}, warned |-> {}]

Idle == [name |-> EmptyName, text |-> EmptyName, steps |-> <<>>, engine |-> "none"]
NoFx == [none |-> TRUE]
Answer(ep, req, resp, fx) == [ep |-> ep, req |-> req, resp |-> resp, fx |-> fx]
NoAnswer == Answer("none", NoBody, NoBody, NoFx)

\* os.getenv('GOOGLE_API_KEY'): unset, set to the empty string, or set
ApiKeys == {NoString, Str(EmptyName), Str(FileName("key", ""))}

ExtractIdle ==
    /\ exDoc = NotPdf /\ exS = 0 /\ exE = 0 /\ exPc = "off" /\ exRes = Returned(<<>>)

Init ==
    /\ GOOGLE_API_KEY \in ApiKeys
    /\ uploads = NoFiles
    /\ audio = NoFiles
    /\ nextUuid = 0
    /\ pc = [w \in Workers |-> "idle"]
    /\ loc = [w \in Workers |-> Idle]
    /\ last = NoAnswer
    /\ known = NothingKnown
    /\ ExtractIdle

\* The answer a handler returns is written out before the process takes its
\* next step, so last holds one answer at a time together with the folders as
\* the handler left them.  Every interleaving of handler steps remains.
Ready == last = NoAnswer
SomeWorkerIdle == Ready /\ \E w \in Workers : pc[w] = "idle"
\* A request is taken by the first worker that is free (workers are
\* interchangeable threads)
Free(w) == Ready /\ pc[w] = "idle" /\ \A v \in Workers : v < w => pc[v] # "idle"
\* Worker w is at position p of its handler
At(w, p) == Ready /\ pc[w] = p

\* Flask writes the answer the handler returned to the client
Sent ==
    /\ last # NoAnswer
    /\ last' = NoAnswer
    /\ UNCHANGED <<GOOGLE_API_KEY, uploads, audio, nextUuid, pc, loc, known, exVars>>

\* POST /text
Text(body) ==
    /\ SomeWorkerIdle
    /\ last' = Answer("text", body, get_text(body, uploads), NoFx)
    /\ UNCHANGED <<GOOGLE_API_KEY, uploads, audio, nextUuid, pc, loc, known, exVars>>

\* POST /summarize
Summarize(body, gen) ==
    /\ SomeWorkerIdle
    /\ LET r == summarize_text(GOOGLE_API_KEY, body, gen)
       IN  last' = Answer("summarize", body, r.resp, r.fx)
    /\ UNCHANGED <<GOOGLE_API_KEY, uploads, audio, nextUuid, pc, loc, known, exVars>>

\* GET /audio/<filename>
ServeAudio(url, exc) ==
    /\ SomeWorkerIdle
    /\ last' = Answer("audio", url, serve_audio(RouteAudio(url), audio, exc), NoFx)
    /\ UNCHANGED <<GOOGLE_API_KEY, uploads, audio, nextUuid, pc, loc, known, exVars>>

\* upload_pdf, lines 65-75: the answer of a request that is turned away
UploadRejection(req) ==
    IF ~req.hasFile THEN JsonError(400, "No file part")
    ELSE IF req.filename = EmptyName THEN JsonError(400, "No selected file")
    ELSE IF Lower(Splitext(req.filename)[2]) \notin {".pdf"}
         THEN JsonError(400, "Invalid file type, only PDF allowed")
    ELSE NoBody

\* POST /upload, lines 65-82: validation, the unique name, file.save
UploadBegin(w, req) ==
    /\ Free(w)
    /\ \/ /\ UploadRejection(req) # NoBody
          /\ last' = Answer("upload", req, UploadRejection(req), NoFx)
          /\ UNCHANGED <<uploads, nextUuid, pc, loc>>
       \/ /\ UploadRejection(req) = NoBody
          /\ nextUuid < MaxUuid
          /\ nextUuid' = nextUuid + 1
          /\ LET unique_filename == generate_unique_filename(req.filename, nextUuid)
             IN  \/ /\ uploads' = WriteFile(uploads, unique_filename, req.content)
                    /\ pc' = [pc EXCEPT ![w] = "upload_saved"]
                    /\ loc' = [loc EXCEPT ![w] = [Idle EXCEPT !.name = unique_filename]]
                    /\ UNCHANGED last
                 \/ /\ last' = Answer("upload", req,
                                      JsonError(500, "Failed to process uploaded file"), NoFx)
                    /\ UNCHANGED <<uploads, pc, loc>>
    /\ UNCHANGED <<GOOGLE_API_KEY, audio, known, exVars>>

\* POST /upload, lines 84-90: PdfReader on the saved file, and the answer
UploadRead(w) ==
    /\ At(w, "upload_saved")
    /\ LET unique_filename == loc[w].name
           reader == PdfReader(uploads[unique_filename])
       IN  \/ /\ reader.kind = "return"
              /\ last' = Answer("upload", unique_filename,
                                JsonOk([server_filename |-> unique_filename,
                                        num_pages |-> Len(reader.v)]), NoFx)
              /\ known' = [known EXCEPT !.files = @ \cup {unique_filename}]
           \/ /\ reader.kind = "raise"
              /\ last' = Answer("upload", unique_filename,
                                JsonError(500, "Failed to process uploaded file"), NoFx)
              /\ UNCHANGED known
    /\ pc' = [pc EXCEPT ![w] = "idle"]
    /\ loc' = [loc EXCEPT ![w] = Idle]
    /\ UNCHANGED <<GOOGLE_API_KEY, uploads, audio, nextUuid, exVars>>

\* what a /tts answer says about the engine: the calls made on it, in order,
\* whether it is held or released, and whether the warning was logged
TtsFx(steps, engine, warned) == [steps |-> steps, engine |-> engine, warned |-> warned]

\* the except clause of text_to_speech, lines 188-190
TtsFailed(w, req, steps, engine) ==
    /\ last' = Answer("tts", req, JsonError(500, "Failed to generate audio"),
                      TtsFx(steps, engine, FALSE))
    /\ pc' = [pc EXCEPT ![w] = "idle"]
    /\ loc' = [loc EXCEPT ![w] = Idle]

\* POST /tts, lines 158-168: the body, the unique name, pyttsx3.init()
TtsBegin(w, body) ==
    /\ Free(w)
    /\ \/ /\ body.k # "object"
          /\ TtsFailed(w, body, <<>>, "none")
          /\ UNCHANGED nextUuid
       \/ /\ body.k = "object"
          /\ Falsy(body.text)
          /\ last' = Answer("tts", body, JsonError(400, "No text provided for TTS"),
                            TtsFx(<<>>, "none", FALSE))
          /\ UNCHANGED <<nextUuid, pc, loc>>
       \/ /\ body.k = "object"
          /\ ~Falsy(body.text)
          /\ nextUuid < MaxUuid
          /\ nextUuid' = nextUuid + 1
          /\ \/ /\ pc' = [pc EXCEPT ![w] = "tts_inited"]
                /\ loc' = [loc EXCEPT ![w] = [name |-> NewAudioFilename(nextUuid),
                                              text |-> body.text.s,
                                              steps |-> <<"init">>,
                                              engine |-> "held"]]
                /\ UNCHANGED last
             \/ TtsFailed(w, body, <<"init">>, "none")
    /\ UNCHANGED <<GOOGLE_API_KEY, uploads, audio, known, exVars>>

\* engine.save_to_file(text, audio_filepath): queues the command
TtsSaveToFile(w) ==
    /\ At(w, "tts_inited")
    /\ LET steps == Append(loc[w].steps, "save_to_file")
       IN  \/ /\ pc' = [pc EXCEPT ![w] = "tts_queued"]
              /\ loc' = [loc EXCEPT ![w].steps = steps]
              /\ UNCHANGED last
           \/ TtsFailed(w, StringBody(Str(loc[w].text)), steps, loc[w].engine)
    /\ UNCHANGED <<GOOGLE_API_KEY, uploads, audio, nextUuid, known, exVars>>

\* what the queued command leaves at audio_filepath
RenderOutcomes == {"data", "empty", "nofile"}

\* engine.runAndWait(): blocks until the queue is processed
TtsRunAndWait(w) ==
    /\ At(w, "tts_queued")
    /\ LET steps == Append(loc[w].steps, "runAndWait")
       IN  \/ /\ \E out \in RenderOutcomes :
                    audio' = IF out = "nofile" THEN audio
                             ELSE WriteFile(audio, loc[w].name, [size |-> out])
              /\ pc' = [pc EXCEPT ![w] = "tts_ran"]
              /\ loc' = [loc EXCEPT ![w].steps = steps]
              /\ UNCHANGED last
           \/ /\ TtsFailed(w, StringBody(Str(loc[w].text)), steps, loc[w].engine)
              /\ UNCHANGED audio
    /\ UNCHANGED <<GOOGLE_API_KEY, uploads, nextUuid, known, exVars>>

TtsStopSkipped(w) ==
    /\ At(w, "tts_ran")
    /\ pc' = [pc EXCEPT ![w] = "tts_stopped"]
    /\ UNCHANGED <<GOOGLE_API_KEY, uploads, audio, nextUuid, loc, last, known, exVars>>
\* engine.stop(): releases the engine
TtsStop(w) ==
    /\ At(w, "tts_ran")
    /\ LET steps == Append(loc[w].steps, "stop")
       IN  \/ /\ pc' = [pc EXCEPT ![w] = "tts_stopped"]
              /\ loc' = [loc EXCEPT ![w].steps = steps, ![w].engine = "released"]
              /\ UNCHANGED last
           \/ TtsFailed(w, StringBody(Str(loc[w].text)), steps, loc[w].engine)
    /\ UNCHANGED <<GOOGLE_API_KEY, uploads, audio, nextUuid, known, exVars>>

TtsWarnsOnlyIfMissing(folder, audio_filename) == audio_filename \notin DOMAIN folder
\* lines 180-181: the check that only logs a warning
TtsWarns(folder, audio_filename) ==
    audio_filename \notin DOMAIN folder \/ folder[audio_filename].size = "empty"

\* lines 180-186: the check, the URL, the answer
TtsRespond(w) ==
    /\ At(w, "tts_stopped")
    /\ LET audio_url == AudioUrl(loc[w].name)
       IN  /\ last' = Answer("tts", StringBody(Str(loc[w].text)),
                             JsonOk([status |-> "completed", audio_url |-> audio_url]),
                             TtsFx(loc[w].steps, loc[w].engine,
                                   TtsWarns(audio, loc[w].name)))
           /\ known' = [known EXCEPT
                          !.urls = @ \cup {audio_url},
                          !.warned = IF TtsWarns(audio, loc[w].name)
                                     THEN @ \cup {loc[w].name} ELSE @]
    /\ pc' = [pc EXCEPT ![w] = "idle"]
    /\ loc' = [loc EXCEPT ![w] = Idle]
    /\ UNCHANGED <<GOOGLE_API_KEY, uploads, audio, nextUuid, exVars>>

\* The URLs a client asks for: those it was given, any file that is on disk,
\* and one that was never there
AudioUrls(folder, given) ==
    given \cup {AudioUrl(n) : n \in DOMAIN folder \cup {FileName("ghost", ".mp3")}}


Next ==
    \/ \E body \in TextBodies(uploads) : Text(body)
    \/ \E body \in StringBodies, gen \in ModelOutcomes : Summarize(body, gen)
    \/ \E url \in AudioUrls(audio, known.urls), exc \in MissingFileErrors : ServeAudio(url, exc)
    \/ \E w \in Workers, req \in UploadRequests : UploadBegin(w, req)
    \/ \E w \in Workers : UploadRead(w)
    \/ \E w \in Workers, body \in StringBodies : TtsBegin(w, body)
    \/ \E w \in Workers : TtsSaveToFile(w)
    \/ \E w \in Workers : TtsRunAndWait(w)
    \/ \E w \in Workers : TtsStop(w)
    \/ \E w \in Workers : TtsRespond(w)
    \/ Sent

Spec == Init /\ [][Next]_vars

----------------------------------------------------------------------------
(* extract_text_from_pdf on its own, over every bounded input *)

RECURSIVE SeqsUpTo(_, _)
SeqsUpTo(S, n) ==
    IF n = 0 THEN {<<>>}
    ELSE LET shorter == SeqsUpTo(S, n - 1)
         IN  shorter \cup {Append(q, x) : q \in shorter, x \in S}

ExtractFiles == {NotPdf} \cup {Pdf(pages) : pages \in SeqsUpTo(PageKinds, MaxPages)}
PageArgs == (0 - PageSpan) .. (MaxPages + PageSpan)

InitExtract ==
    /\ GOOGLE_API_KEY = NoString
    /\ uploads = NoFiles
    /\ audio = NoFiles
    /\ nextUuid = 0
    /\ pc = [w \in Workers |-> "idle"]
    /\ loc = [w \in Workers |-> Idle]
    /\ last = NoAnswer
    /\ known = NothingKnown
    /\ exDoc \in ExtractFiles
    /\ exS \in PageArgs
    /\ exE \in PageArgs
    /\ exPc = "ready"
    /\ exRes = Returned(<<>>)

ExtractCall ==
    /\ exPc = "ready"
    /\ exRes' = extract_text_from_pdf(exDoc, exS, exE)
    /\ exPc' = "done"
    /\ UNCHANGED <<exDoc, exS, exE, srvVars>>

NextExtract == ExtractCall

SpecExtract == InitExtract /\ [][NextExtract]_vars

----------------------------------------------------------------------------
(* The extraction claims, under SpecExtract *)

\* the text of a page: what extract_text() returned, "" if it returned nothing
PageText(page) == IF page.kind = "text" THEN page.t ELSE <<>>

\* the texts of pages lo .. hi (1-indexed, inclusive), in increasing order
RECURSIVE ConcatPages(_, _, _)
ConcatPages(pages, lo, hi) ==
    IF lo > hi THEN <<>> ELSE PageText(pages[lo]) \o ConcatPages(pages, lo + 1, hi)

ExDone == exPc = "done" /\ exDoc.pdf
ExN == Len(exDoc.pages)
ExLo == Max(1, exS)
ExHi == Min(ExN, exE)
SomePageRaises == \E i \in ExLo .. ExHi : exDoc.pages[i].kind = "raise"
SomePageIsNone == \E i \in ExLo .. ExHi : exDoc.pages[i].kind = "none"

\* C1: for a document of n pages whose pages in the clamped range have a text,
\* extract_text_from_pdf(path, s, e) returns the concatenation, in increasing
\* page order, of the texts of pages max(1, s) .. min(n, e), both ends
\* included; s < 1 gives the result of s = 1 and e > n the result of e = n.
C1_ClampedConcatenation ==
    ExDone =>
        /\ ~SomePageRaises => exRes = Returned(ConcatPages(exDoc.pages, ExLo, ExHi))
        /\ exS < 1 => exRes = extract_text_from_pdf(exDoc, 1, exE)
        /\ exE > ExN => exRes = extract_text_from_pdf(exDoc, exS, ExN)

C1_Witness ==
    /\ ExDone
    /\ exDoc.pages = <<TextPage(<<"a">>), NonePage, TextPage(<<"b">>)>>
    /\ exS < 1
    /\ exE > ExN
    /\ exRes = Returned(<<"a", "b">>)

\* C2: for a parseable document of n pages (n = 0 included) and arguments with
\* max(1, s) > min(n, e), extract_text_from_pdf returns the empty string and
\* raises nothing, whatever the pages are.
C2_EmptyRangeIsEmptyString ==
    (ExDone /\ ExLo > ExHi) => exRes = Returned(<<>>)

C2_Witness ==
    /\ ExDone
    /\ exDoc.pages = <<RaisingPage, TextPage(<<"a">>)>>
    /\ exS > ExN
    /\ exE >= exS
    /\ exRes = Returned(<<>>)

\* C9 as claimed: a page of the clamped range whose extraction returns nothing
\* or raises counts as the empty string, and the texts of the other pages of
\* the range are returned in order.
C9_PageFailureIsEmpty ==
    (ExDone /\ ExLo <= ExHi) => exRes = Returned(ConcatPages(exDoc.pages, ExLo, ExHi))

\* C9 as amended: a page of the clamped range whose extraction returns nothing
\* counts as the empty string and the texts of the other pages are returned in
\* order; a page of the range whose extraction raises aborts the call, which
\* raises that error.
C9_NoneIsEmptyRaiseAborts ==
    (ExDone /\ ExLo <= ExHi) =>
        /\ (SomePageIsNone /\ ~SomePageRaises) =>
               exRes = Returned(ConcatPages(exDoc.pages, ExLo, ExHi))
        /\ SomePageRaises => exRes = Raised("PageError")

C9_Witness ==
    /\ ExDone
    /\ exDoc.pages = <<TextPage(<<"a">>), RaisingPage, TextPage(<<"b">>)>>
    /\ exS = 1
    /\ exE = 3
    /\ exRes = Raised("PageError")

----------------------------------------------------------------------------
(* The server claims, under Spec.  last is the answer a handler has just     *)
(* returned, uploads and audio are the folders as that handler left them.    *)

Answered(ep) == last.ep = ep
IsErrorAnswer(resp) ==
    resp.kind = "json" /\ resp.error # "" /\ resp.status >= 400 /\ resp.status <= 599

\* a /text request that carries a non-empty string as server_filename
TextNames == Answered("text") /\ last.req.k = "object" /\ ~Falsy(last.req.server_filename)
TextName == last.req.server_filename.s
\* its start_page and end_page are absent or values int() converts
PagesConvert ==
    /\ PyInt(GetOr(last.req.start_page, IntVal(1))).kind = "return"
    /\ PyInt(GetOr(last.req.end_page, IntVal(1))).kind = "return"

\* C3 as claimed: a /text request whose server_filename no successful /upload
\* returned is answered 404 with an error field, whatever its start_page and
\* end_page are.
C3_NeverUploadedIs404 ==
    (TextNames /\ TextName \notin known.files) =>
        (last.resp.status = 404 /\ IsErrorAnswer(last.resp))

\* C3 as amended: a /text request whose server_filename is a non-empty string
\* naming no existing file under the upload folder, and whose start_page and
\* end_page are absent or convertible by int(), is answered 404 with an error
\* field.
C3_MissingFileIs404 ==
    (TextNames /\ ~UploadPathExists(uploads, TextName) /\ PagesConvert) =>
        (last.resp.status = 404 /\ IsErrorAnswer(last.resp))

C3_Witness ==
    /\ TextNames
    /\ TextName = GhostName
    /\ known.files # {}
    /\ last.req.start_page = FloatTenths(15)
    /\ last.resp = JsonError(404, "PDF file not found on server")

\* a page value that is not an integer: a non-numeric string, a fractional
\* number, null, a list
NonInteger(v) == v.k \in {"str", "float", "null", "list"}

\* C4: a /text request whose start_page or end_page is not an integer is
\* answered 400, never 200 or 500.
C4_NonIntegerPagesAre400 ==
    (Answered("text") /\ last.req.k = "object"
        /\ (NonInteger(last.req.start_page) \/ NonInteger(last.req.end_page))) =>
        last.resp.status = 400

\* C5: with no credential set, every /summarize request, whatever its body, is
\* answered 500 with the error that the service is not configured, and the
\* prompt is not built and the remote model is not called.
C5_UnconfiguredIs500 ==
    (Answered("summarize") /\ Falsy(GOOGLE_API_KEY)) =>
        /\ last.resp = JsonError(500, "AI Service not configured on server")
        /\ ~last.fx.prompted
        /\ ~last.fx.called

C5_Witness ==
    /\ Answered("summarize")
    /\ GOOGLE_API_KEY = Str(EmptyName)
    /\ last.req = StringBody(NoString)
    /\ last.resp.status = 500

\* C6: no exception leaves a handler, and every answer that is not a success
\* is a JSON object with an error string and a 4xx/5xx status.
C6_EveryFailureIsJsonError ==
    last # NoAnswer =>
        /\ last.resp.kind # "escaped"
        /\ last.resp.status # 200 => IsErrorAnswer(last.resp)

\* a GET of an audio_url that a /tts answer with status "completed" returned
GetOfReturnedUrl == Answered("audio") /\ last.req \in known.urls
TtsCompleted == Answered("tts") /\ last.resp.status = 200

\* C7 as claimed: the audio_url of a "completed" /tts answer begins with
\* /audio/, and a later GET of it returns the non-empty file that request
\* created, not a 404.
C7_ReturnedUrlServesAudio ==
    /\ TtsCompleted => last.resp.body.audio_url.prefix = "/audio/"
    /\ GetOfReturnedUrl =>
          /\ last.resp.kind = "file"
          /\ last.resp.body = [size |-> "data", gen |-> 1]

\* C7 as amended: the audio_url of a "completed" /tts answer begins with
\* /audio/; if the check after synthesis found a non-empty file (no warning
\* was logged), a later GET of the URL returns that file as the request wrote
\* it; if the warning was logged the answer is "completed" all the same and the
\* GET returns no data: the file is missing (no file response) or empty.
C7_ServesAudioUnlessWarned ==
    /\ TtsCompleted =>
          /\ last.resp.body.audio_url.prefix = "/audio/"
          /\ last.resp.body.status = "completed"
          /\ last.fx.warned <=> RouteAudio(last.resp.body.audio_url) \in known.warned
    /\ GetOfReturnedUrl =>
          IF RouteAudio(last.req) \in known.warned
          THEN last.resp.kind # "file" \/ last.resp.body = [size |-> "empty", gen |-> 1]
          ELSE last.resp = FileResponse([size |-> "data", gen |-> 1])

C7_Witness ==
    /\ GetOfReturnedUrl
    /\ RouteAudio(last.req) \notin known.warned
    /\ last.resp.kind = "file"
    /\ uploads # NoFiles

\* the file names requests in progress hold
InFlight(w) == pc[w] # "idle"
\* a /tts request that has its name and has not yet rendered
BeforeRender(w) == pc[w] \in {"tts_inited", "tts_queued"}

DistinctNames ==
    /\ \A v, w \in Workers : (v # w /\ InFlight(v) /\ InFlight(w)) => loc[v].name # loc[w].name
    /\ \A w \in Workers : BeforeRender(w) => loc[w].name \notin DOMAIN audio
    /\ \A n \in DOMAIN uploads : uploads[n].gen = 1
    /\ \A n \in DOMAIN audio : audio[n].gen = 1

FilesKept ==
    /\ \A n \in DOMAIN uploads : n \in DOMAIN uploads' /\ uploads'[n] = uploads[n]
    /\ \A n \in DOMAIN audio : n \in DOMAIN audio' /\ audio'[n] = audio[n]

\* C8: under every interleaving of /upload and /tts requests each request
\* writes to a name no other request holds, and a stored PDF or audio file,
\* once created, is never overwritten, changed or deleted.
C8_FilesWrittenOnce == []DistinctNames /\ [][FilesKept]_vars

C8_Witness ==
    /\ \E v, w \in Workers : pc[v] = "upload_saved" /\ pc[w] = "tts_ran"
    /\ uploads # NoFiles
    /\ audio # NoFiles

\* a /tts answer of a request that acquired an engine
TtsWithEngine == Answered("tts") /\ last.fx.engine # "none"
EngineCalls == <<"init", "save_to_file", "runAndWait", "stop">>

\* C10 as claimed: on every path of a /tts request that acquired an engine,
\* success or 500, the engine has been released before the answer is sent.
C10_EngineReleasedBeforeAnswer ==
    TtsWithEngine => last.fx.engine = "released"

\* C10 as amended: a /tts request that acquired an engine and is answered
\* "completed" has initialised the engine, queued the render, waited for it
\* and released the engine, in that order, before the answer; one answered 500
\* because save_to_file, runAndWait or stop raised is answered with the
\* engine still held, the calls made being a prefix of that order.
C10_ReleasedOnlyOnSuccess ==
    TtsWithEngine =>
        /\ last.resp.status \in {200, 500}
        /\ last.resp.status = 200 =>
              (last.fx.steps = EngineCalls /\ last.fx.engine = "released")
        /\ last.resp.status = 500 =>
              /\ last.fx.engine = "held"
              /\ Len(last.fx.steps) \in 2 .. 4
              /\ last.fx.steps = SubSeq(EngineCalls, 1, Len(last.fx.steps))

C10_Witness ==
    /\ TtsWithEngine
    /\ last.resp = JsonError(500, "Failed to generate audio")
    /\ last.fx.steps = <<"init", "save_to_file", "runAndWait">>
    /\ last.fx.engine = "held"

====
